---- MODULE Spec2Model ----
(***************************************************************************)
(* Model of the Texas scratch-off dashboard: the derived-field calculator  *)
(* and game-level aggregator of data_processor.py, the fetch operations of *)
(* neo4j_connector.py over a small graph database, and the session state   *)
(* machine of app.py's main().                                             *)
(*                                                                         *)
(* Numbers are exact rationals [k, n, d] (k = "num") or one of the float   *)
(* specials "nan", "inf", "ninf".  A pandas table is a record              *)
(* [err, cols, rows]: cols is the set of column names, rows a sequence of  *)
(* records whose domain is cols, err the exception that escaped ("none"    *)
(* when the call returned).  Optional strings are [some, s].               *)
(***************************************************************************)
EXTENDS Integers, Sequences, FiniteSets, TLC

VARIABLES
    input,        \* CalcSpec: the table handed to _calculate_additional_fields
    derived,      \* CalcSpec: the table after lines 233-259 (before aggregation)
    result,       \* CalcSpec/FetchSpec: the table the operation returned
    again,        \* CalcSpec: _calculate_additional_fields applied to result
    stage,        \* CalcSpec/FetchSpec: which operation has run
    query,        \* FetchSpec: the arguments of the fetch that ran
    db,           \* FetchSpec: the graph database (Game and Detail nodes)
    backend,      \* FetchSpec: what the connector's driver does with a query
    records,      \* FetchSpec: the records the connector operation returned
    pc,           \* Spec: position of the script run inside main()
    conns,        \* Spec: driver state of every Neo4jConnector created so far
    stored,       \* Spec: index in conns of st.session_state.neo4j_connector, 0 if unset
    connected,    \* Spec: st.session_state.connected
    loaded,       \* Spec: which of games_data / prizes_data / lottery_data were assigned
    lottery_src,  \* Spec: the fetch that produced st.session_state.lottery_data
    prev_range,   \* Spec: st.session_state.prev_filter_price_range (<<>> if unset)
    fetched,      \* Spec: the most recent fetch: operation, connector and its driver state
    messages,     \* Spec: number of st.error connection messages shown so far
    runs,         \* Spec: number of script runs started
    selected,     \* Spec: the value of the ticket-price slider (<<>> before it is shown)
    filter_fetches \* Spec: number of get_filtered_data calls made so far

vars == <<input, derived, result, again, stage, query, db, backend, records, pc, conns,
          stored, connected, loaded, lottery_src, prev_range, fetched, messages, runs,
          selected, filter_fetches>>

calcVars == <<input, derived, result, again, stage>>
fetchVars == <<query, db, backend, records>>
filterVars == <<selected, filter_fetches>>
sessionVars == <<pc, conns, stored, connected, loaded, lottery_src, prev_range,
                 fetched, messages, runs, selected, filter_fetches>>

(***************************************************************************)
(* Bounds                                                                  *)
(***************************************************************************)
MaxRows == 2      \* rows of a table handed to _calculate_additional_fields
MaxTiers == 2     \* Detail nodes of the game whose tiers vary
MaxRuns == 3      \* script runs of one session

(***************************************************************************)
(* Numbers                                                                 *)
(***************************************************************************)
Abs(x) == IF x < 0 THEN -x ELSE x

RECURSIVE Gcd(_, _)
Gcd(a, b) == IF b = 0 THEN a ELSE Gcd(b, a % b)

NaN == [k |-> "nan", n |-> 0, d |-> 1]
Inf == [k |-> "inf", n |-> 0, d |-> 1]
NegInf == [k |-> "ninf", n |-> 0, d |-> 1]

\* the rational n/d in lowest terms with a positive denominator (d # 0)
Rat(n, d) ==
    LET g == Gcd(Abs(n), Abs(d))
        s == IF d < 0 THEN -1 ELSE 1
    IN  [k |-> "num", n |-> (s * n) \div g, d |-> (s * d) \div g]

Num(n) == [k |-> "num", n |-> n, d |-> 1]

IsNum(a) == a.k = "num"
IsNaN(a) == a.k = "nan"
IsFinite(a) == a.k = "num"

\* sign of a non-NaN value
Sign(a) ==
    IF a.k = "inf" THEN 1
    ELSE IF a.k = "ninf" THEN -1
    ELSE IF a.n > 0 THEN 1 ELSE IF a.n < 0 THEN -1 ELSE 0

\* a > b as pandas/numpy compare floats: any comparison with NaN is False
NGt(a, b) ==
    IF IsNaN(a) \/ IsNaN(b) THEN FALSE
    ELSE IF a.k = "inf" THEN b.k # "inf"
    ELSE IF a.k = "ninf" THEN FALSE
    ELSE IF b.k = "inf" THEN FALSE
    ELSE IF b.k = "ninf" THEN TRUE
    ELSE a.n * b.d > b.n * a.d

NGe(a, b) == IF IsNaN(a) \/ IsNaN(b) THEN FALSE ELSE ~NGt(b, a)

\* a - b, NaN-propagating
NSub(a, b) ==
    IF IsNaN(a) \/ IsNaN(b) THEN NaN
    ELSE IF IsNum(a) /\ IsNum(b) THEN Rat(a.n * b.d - b.n * a.d, a.d * b.d)
    ELSE IF a.k = b.k THEN NaN
    ELSE IF a.k = "inf" \/ b.k = "ninf" THEN Inf
    ELSE NegInf

\* a + b, NaN-propagating
NAdd(a, b) ==
    IF IsNaN(a) \/ IsNaN(b) THEN NaN
    ELSE IF IsNum(a) /\ IsNum(b) THEN Rat(a.n * b.d + b.n * a.d, a.d * b.d)
    ELSE IF IsNum(a) THEN b
    ELSE IF IsNum(b) THEN a
    ELSE IF a.k = b.k THEN a
    ELSE NaN

\* a * b, NaN-propagating
NMul(a, b) ==
    IF IsNaN(a) \/ IsNaN(b) THEN NaN
    ELSE IF IsNum(a) /\ IsNum(b) THEN Rat(a.n * b.n, a.d * b.d)
    ELSE IF Sign(a) * Sign(b) = 0 THEN NaN
    ELSE IF Sign(a) * Sign(b) > 0 THEN Inf
    ELSE NegInf

\* a / b as float division of two columns: x/0 is +-inf, 0/0 is NaN, no exception
NDiv(a, b) ==
    IF IsNaN(a) \/ IsNaN(b) THEN NaN
    ELSE IF IsNum(a) /\ IsNum(b) THEN
        IF b.n = 0
        THEN (IF a.n = 0 THEN NaN ELSE IF a.n > 0 THEN Inf ELSE NegInf)
        ELSE Rat(a.n * b.d, a.d * b.n)
    ELSE IF IsNum(b) THEN
        (IF Sign(b) < 0 THEN (IF a.k = "inf" THEN NegInf ELSE Inf) ELSE a)
    ELSE IF IsNum(a) THEN Num(0)
    ELSE NaN

(***************************************************************************)
(* Optional strings and tables                                             *)
(***************************************************************************)
Str(s) == [some |-> TRUE, s |-> s]
None == [some |-> FALSE, s |-> ""]

\* str(x) inside an f-string
Fmt(x) == IF x.some THEN x.s ELSE "None"

Table(cols, rows) == [err |-> "none", cols |-> cols, rows |-> rows]
EmptyTable == Table({}, <<>>)
Raised(e) == [err |-> e, cols |-> {}, rows |-> <<>>]

\* df[c] = f(row) for every row
WithCol(row, c, v) == [x \in (DOMAIN row) \cup {c} |-> IF x = c THEN v ELSE row[x]]

RowIdx(df) == 1..Len(df.rows)

IsEmpty(df) == Len(df.rows) = 0 \/ df.cols = {}

StrCols == {"game_id", "game_name", "formatted_game_name", "game_close_date"}

IsMissing(v) == IF "some" \in DOMAIN v THEN ~v.some ELSE IsNaN(v)
MissingOf(c) == IF c \in StrCols THEN None ELSE NaN

(***************************************************************************)
(* data_processor.py: _calculate_additional_fields                         *)
(***************************************************************************)
\* f"{row['game_name']} ({row['game_id']})"
FormattedGameName(row) ==
    Str(Fmt(row.game_name) \o " (" \o Fmt(row.game_id) \o ")")

AddFormattedGameName(df) ==
    IF {"game_name", "game_id"} \subseteq df.cols
    THEN Table(df.cols \cup {"formatted_game_name"},
               [i \in RowIdx(df) |->
                   WithCol(df.rows[i], "formatted_game_name",
                           FormattedGameName(df.rows[i]))])
    ELSE df

\* mutant: keeps the remaining_count the fetch layer supplied when there is one
RecalcRemainingTrustFetched(row) ==
    LET rem == IF "remaining_count" \in DOMAIN row
               THEN row.remaining_count
               ELSE NSub(row.total_count, row.claimed_count)
    IN  WithCol(WithCol(row, "remaining_count", rem), "unclaimed_prizes", rem)

\* df['remaining_count'] = df['total_count'] - df['claimed_count'];
\* df['unclaimed_prizes'] = df['remaining_count']
RecalcRemaining(row) ==
    LET rem == NSub(row.total_count, row.claimed_count)
    IN  WithCol(WithCol(row, "remaining_count", rem), "unclaimed_prizes", rem)

AddRemainingCount(df) ==
    IF {"total_count", "claimed_count"} \subseteq df.cols
    THEN Table(df.cols \cup {"remaining_count", "unclaimed_prizes"},
               [i \in RowIdx(df) |-> RecalcRemaining(df.rows[i])])
    ELSE df

\* np.where(remaining_count > 0, remaining_count / total_count, 0)
RowWinProbability(row) ==
    IF NGt(row.remaining_count, Num(0))
    THEN NDiv(row.remaining_count, row.total_count)
    ELSE Num(0)

AddWinProbability(df) ==
    IF {"remaining_count", "total_count"} \subseteq df.cols
    THEN Table(df.cols \cup {"win_probability"},
               [i \in RowIdx(df) |->
                   WithCol(df.rows[i], "win_probability",
                           RowWinProbability(df.rows[i]))])
    ELSE df

\* win_probability * prize_amount - ticket_price
RowExpectedValue(row) ==
    NSub(NMul(row.win_probability, row.prize_amount), row.ticket_price)

AddExpectedValue(df) ==
    IF {"win_probability", "prize_amount", "ticket_price"} \subseteq df.cols
    THEN Table(df.cols \cup {"expected_value"},
               [i \in RowIdx(df) |->
                   WithCol(df.rows[i], "expected_value",
                           RowExpectedValue(df.rows[i]))])
    ELSE df

\* lines 233-259: the derived table, before the aggregation decision
DerivedFields(df) ==
    AddExpectedValue(AddWinProbability(AddRemainingCount(AddFormattedGameName(df))))

\* df['game_id'].unique(): a missing game_id is one of the distinct values
UniqueGameIds(df) == {df.rows[i].game_id : i \in RowIdx(df)}

\* 'game_id' in df.columns and len(df) > len(df['game_id'].unique())
NeedsAggregation(df) ==
    /\ "game_id" \in df.cols
    /\ Len(df.rows) > Cardinality(UniqueGameIds(df))

SumCols == {"total_count", "claimed_count", "remaining_count", "unclaimed_prizes"}
FirstCols == {"game_name", "ticket_price"}
MaxCols == {"last_updated"}

\* mutant: expected_value is carried through the aggregation when present
AggDictKeepsExpectedValue(df) ==
    {"game_name", "ticket_price", "last_updated"}
    \cup {"total_count", "claimed_count", "remaining_count", "unclaimed_prizes"}
    \cup (IF "formatted_game_name" \in df.cols THEN {"formatted_game_name"} ELSE {})
    \cup (IF "expected_value" \in df.cols THEN {"expected_value"} ELSE {})

\* the keys of agg_dict
AggDict(df) ==
    FirstCols \cup SumCols \cup MaxCols \cup
    (IF "formatted_game_name" \in df.cols THEN {"formatted_game_name"} ELSE {})

\* the order in which groupby (sort=True) emits its groups
GameIdOrder == <<"G1", "G2">>

\* the group keys: groupby drops the rows whose key is missing (dropna=True)
GroupKeys(df) ==
    SelectSeq(GameIdOrder,
              LAMBDA g : \E i \in RowIdx(df) : df.rows[i].game_id = Str(g))

GroupRows(df, g) == {i \in RowIdx(df) : df.rows[i].game_id = Str(g)}

SetMin(S) == CHOOSE x \in S : \A y \in S : x <= y

\* 'first': the first non-missing value of the group
AggFirst(df, grp, c) ==
    LET ok == {i \in grp : ~IsMissing(df.rows[i][c])}
    IN  IF ok = {} THEN MissingOf(c) ELSE df.rows[SetMin(ok)][c]

RECURSIVE SumOver(_, _, _)
SumOver(df, idx, c) ==
    IF idx = {} THEN Num(0)
    ELSE LET i == SetMin(idx)
             v == df.rows[i][c]
         IN  NAdd(IF IsNaN(v) THEN Num(0) ELSE v, SumOver(df, idx \ {i}, c))

\* mutant: the counts take the 'first' reducer
AggSumTakesFirst(df, grp, c) == AggFirst(df, grp, c)

\* 'sum': missing values are skipped; an all-missing group sums to 0
AggSum(df, grp, c) == SumOver(df, grp, c)

\* 'max': the greatest non-missing value of the group
AggMax(df, grp, c) ==
    LET ok == {i \in grp : ~IsMissing(df.rows[i][c])}
    IN  IF ok = {} THEN MissingOf(c)
        ELSE df.rows[CHOOSE i \in ok :
                        \A j \in ok : NGe(df.rows[i][c], df.rows[j][c])][c]

\* np.where(total_count > 0, remaining_count / total_count, 0)
AggWinProbability(row) ==
    IF NGt(row.total_count, Num(0))
    THEN NDiv(row.remaining_count, row.total_count)
    ELSE Num(0)

AggRow(df, g) ==
    LET grp == GroupRows(df, g)
        cols == AggDict(df) \cup {"game_id"}
        base == [c \in cols |->
                    IF c = "game_id" THEN Str(g)
                    ELSE IF c \in SumCols THEN AggSum(df, grp, c)
                    ELSE IF c \in MaxCols THEN AggMax(df, grp, c)
                    ELSE AggFirst(df, grp, c)]
    IN  WithCol(base, "win_probability", AggWinProbability(base))

\* df.groupby('game_id').agg(agg_dict).reset_index() and lines 280-291;
\* agg raises KeyError when agg_dict names a column the table lacks
AggregateByGame(df) ==
    IF ~(AggDict(df) \subseteq df.cols) THEN Raised("KeyError")
    ELSE LET keys == GroupKeys(df)
         IN  Table(AggDict(df) \cup {"game_id", "win_probability"},
                   [k \in 1..Len(keys) |-> AggRow(df, keys[k])])

CalculateAdditionalFields(df) ==
    IF IsEmpty(df) THEN df
    ELSE LET d == DerivedFields(df)
         IN  IF NeedsAggregation(d) THEN AggregateByGame(d) ELSE d

(***************************************************************************)
(* neo4j_connector.py: the fetch operations over the graph database.       *)
(* db.games and db.details are the Game and Detail nodes in storage order; *)
(* a missing (null) property is NaN for numbers and None for strings.  A   *)
(* Detail BELONGS_TO the Game whose game_number it carries.                *)
(***************************************************************************)
\* what the driver does with a query: "ok" serves it, "error" raises (a
\* transport or backend failure), "no_driver" is self.driver = None
Backends == {"ok", "error", "no_driver"}

\* mutant: a failing query is not caught
execute_queryPropagates(b, data) ==
    IF b = "ok" THEN [err |-> "none", data |-> data]
    ELSE [err |-> "ServiceUnavailable", data |-> <<>>]

\* Neo4jConnector.execute_query: the rows of the query, or empty_result without
\* a driver (lines 84-86) and on every exception (lines 109-112).  The fetch
\* operations turn each row into a record; err is the exception a caller sees
execute_query(b, data) ==
    IF b = "no_driver" THEN [err |-> "none", data |-> <<>>]
    ELSE IF b = "error" THEN [err |-> "none", data |-> <<>>]
    ELSE [err |-> "none", data |-> data]

\* the (game, detail) index pairs of MATCH (g:Game), (d:Detail)
\* WHERE g.game_number = d.game_number; null = null is not true in Cypher
JoinPairs(d) ==
    LET ng == Len(d.games)
        nd == Len(d.details)
        all == [k \in 1..(ng * nd) |-> <<((k - 1) \div nd) + 1, ((k - 1) % nd) + 1>>]
    IN  SelectSeq(all,
                  LAMBDA p : /\ d.games[p[1]].game_number.some
                             /\ d.games[p[1]].game_number = d.details[p[2]].game_number)

\* 0 if value is None else value
ZeroIfNone(v) == IF IsNaN(v) THEN Num(0) ELSE v

\* total - claimed with None read as 0 (lines 177-182, 228-233, 269-276)
RemainingFromCounts(total, claimed) == NSub(ZeroIfNone(total), ZeroIfNone(claimed))

JoinedRecordTierCounts(g, t) ==
    [game_id |-> g.game_number, game_name |-> g.game_name,
     ticket_price |-> g.ticket_price, prize_level |-> t.prize_level,
     total_prizes |-> t.total_prizes, total_count |-> t.total_prizes,
     prizes_claimed |-> t.prizes_claimed, claimed_count |-> t.prizes_claimed,
     last_updated |-> g.date_updated, game_close_date |-> g.game_close_date,
     remaining_count |-> RemainingFromCounts(t.total_prizes, t.prizes_claimed)]

\* one record of the joined fetch: the RETURN clause plus the remaining_count
\* the connector adds (lines 269-276, 382-389)
JoinedRecord(g, t) ==
    [game_id |-> g.game_number, game_name |-> g.game_name,
     ticket_price |-> g.ticket_price, prize_level |-> t.prize_level,
     total_prizes |-> g.total_prizes, total_count |-> g.total_prizes,
     prizes_claimed |-> g.prizes_claimed, claimed_count |-> g.prizes_claimed,
     last_updated |-> g.date_updated, game_close_date |-> g.game_close_date,
     remaining_count |-> RemainingFromCounts(g.total_prizes, g.prizes_claimed)]

GameRecord(g) ==
    [game_id |-> g.game_number, game_name |-> g.game_name,
     ticket_price |-> g.ticket_price, last_updated |-> g.date_updated,
     game_close_date |-> g.game_close_date,
     total_prizes |-> g.total_prizes, total_count |-> g.total_prizes,
     prizes_claimed |-> g.prizes_claimed, claimed_count |-> g.prizes_claimed]

\* Neo4jConnector.get_games: MATCH (g:Game) RETURN ...
get_games(b, d) ==
    execute_query(b, [i \in 1..Len(d.games) |-> GameRecord(d.games[i])])

PrizeRecord(t) ==
    [game_id |-> t.game_number, prize_level |-> t.prize_level,
     total_prizes |-> t.total_prizes, total_count |-> t.total_prizes,
     prizes_claimed |-> t.prizes_claimed, claimed_count |-> t.prizes_claimed,
     remaining_count |-> RemainingFromCounts(t.total_prizes, t.prizes_claimed)]

\* Neo4jConnector.get_prize_details: MATCH (d:Detail) RETURN ...
get_prize_details(b, d) ==
    execute_query(b, [j \in 1..Len(d.details) |-> PrizeRecord(d.details[j])])

GamePrizeRecord(g, t) ==
    [game_name |-> g.game_name, ticket_price |-> g.ticket_price,
     prize_level |-> t.prize_level, prize_amount |-> t.prize_level,
     total_prizes |-> g.total_prizes, total_count |-> g.total_prizes,
     prizes_claimed |-> g.prizes_claimed, claimed_count |-> g.prizes_claimed,
     detail_total_count |-> t.total_prizes, detail_total_prizes |-> t.total_prizes,
     detail_claimed_count |-> t.prizes_claimed,
     detail_prizes_claimed |-> t.prizes_claimed,
     remaining_count |-> RemainingFromCounts(g.total_prizes, g.prizes_claimed)]

\* ORDER BY toInteger(d.prize_level) DESC: a null level sorts first, equal
\* levels stay in match order
OrderByLevelDesc(d, ps) ==
    LET lvl(k) == d.details[ps[k][2]].prize_level
        before(j, k) == \/ IsNaN(lvl(j)) /\ ~IsNaN(lvl(k))
                        \/ NGt(lvl(j), lvl(k))
                        \/ lvl(j) = lvl(k) /\ j < k
        rank(k) == Cardinality({j \in 1..Len(ps) : before(j, k)}) + 1
    IN  [r \in 1..Len(ps) |-> ps[CHOOSE k \in 1..Len(ps) : rank(k) = r]]

\* Neo4jConnector.get_game_prize_details
get_game_prize_details(b, d, game_id) ==
    LET ps == OrderByLevelDesc(d,
                  SelectSeq(JoinPairs(d),
                            LAMBDA p : d.games[p[1]].game_number = game_id))
    IN  execute_query(b, [k \in 1..Len(ps) |->
                             GamePrizeRecord(d.games[ps[k][1]], d.details[ps[k][2]])])

\* the records of the join for the games (indices into d.games) in keep
JoinedRecords(d, keep) ==
    LET ps == SelectSeq(JoinPairs(d), LAMBDA p : p[1] \in keep)
    IN  [k \in 1..Len(ps) |-> JoinedRecord(d.games[ps[k][1]], d.details[ps[k][2]])]

\* Neo4jConnector.get_games_with_prize_details
get_games_with_prize_details(b, d) ==
    execute_query(b, JoinedRecords(d, 1..Len(d.games)))

\* mutant: only a null game_close_date counts as absent
HasCloseDateNotNull(g) == g.game_close_date.some

\* a game_close_date that marks the game as ending soon (line 360)
HasCloseDate(g) ==
    /\ g.game_close_date.some
    /\ g.game_close_date.s \notin {"", "None", "null"}

\* mutant: 'exclude' keeps only the games whose game_close_date is null
FilterKeepsExcludeNull(g, game_id, lo, hi, ending) ==
    /\ game_id.some => g.game_number = game_id
    /\ NGe(g.ticket_price, Num(lo))
    /\ NGe(Num(hi), g.ticket_price)
    /\ ending = "only" => HasCloseDate(g)
    /\ ending = "exclude" => ~g.game_close_date.some

\* the WHERE clauses get_filtered_games adds (lines 342-363); a null
\* ticket_price fails both comparisons
FilterKeeps(g, game_id, lo, hi, ending) ==
    /\ game_id.some => g.game_number = game_id
    /\ NGe(g.ticket_price, Num(lo))
    /\ NGe(Num(hi), g.ticket_price)
    /\ ending = "only" => HasCloseDate(g)
    /\ ending = "exclude" => ~HasCloseDate(g)

\* Neo4jConnector.get_filtered_games
get_filtered_games(b, d, game_id, lo, hi, ending) ==
    execute_query(b, JoinedRecords(d, {gi \in 1..Len(d.games) :
                         FilterKeeps(d.games[gi], game_id, lo, hi, ending)}))

\* toFloat(d.prizes_claimed) / d.total_prizes
ClaimRate(t) == NDiv(t.prizes_claimed, t.total_prizes)

GameDetails(d, g) ==
    {j \in 1..Len(d.details) :
        g.game_number.some /\ d.details[j].game_number = g.game_number}

\* WITH g, max(toInteger(d.prize_level)) AS max_prize_level (line 291);
\* max() skips nulls and is null when every level is null
MaxPrizeLevel(d, g) ==
    LET ls == {d.details[j].prize_level : j \in GameDetails(d, g)}
        ok == {l \in ls : ~IsNaN(l)}
    IN  IF ok = {} THEN NaN ELSE CHOOSE l \in ok : \A m \in ok : NGe(l, m)

AvoidThreshold == Rat(9, 10)

\* WHERE toInteger(d.prize_level) = max_prize_level AND claim rate >= 0.9
AvoidMatches(d, g, t) ==
    /\ ~IsNaN(t.prize_level)
    /\ t.prize_level = MaxPrizeLevel(d, g)
    /\ NGe(ClaimRate(t), AvoidThreshold)

AvoidRecord(g, t) ==
    [game_name |-> g.game_name, game_id |-> g.game_number,
     prize_level |-> t.prize_level, ticket_price |-> g.ticket_price,
     total_prizes |-> t.total_prizes, prizes_claimed |-> t.prizes_claimed,
     claim_rate |-> ClaimRate(t)]

\* Neo4jConnector.get_games_to_avoid
get_games_to_avoid(b, d) ==
    LET ps == SelectSeq(JoinPairs(d),
                        LAMBDA p : AvoidMatches(d, d.games[p[1]], d.details[p[2]]))
    IN  execute_query(b, [k \in 1..Len(ps) |->
                             AvoidRecord(d.games[ps[k][1]], d.details[ps[k][2]])])

(***************************************************************************)
(* data_processor.py: normalisation of the fetched records                 *)
(***************************************************************************)
AvoidCols == {"game_name", "game_id", "prize_level", "ticket_price", "total_prizes",
              "prizes_claimed", "claim_rate"}

\* pd.to_numeric(errors='coerce') and pd.to_datetime(errors='coerce'):
\* a value that does not convert becomes missing
Coerce(v) == IF v.k \in {"num", "inf", "ninf"} THEN v ELSE NaN

\* mutant: only a zero level is guarded
PrizeAmountNonZero(level) ==
    IF IsNum(level) /\ level.n # 0 THEN NDiv(Num(10000), level) ELSE Num(0)

\* lambda x: float(10000/float(x)) if x and float(x) > 0 else 0
PrizeAmount(level) ==
    IF IsNum(level) /\ level.n > 0 THEN NDiv(Num(10000), level) ELSE Num(0)

\* lines 99-119 / 191-211: the frame of the (non-empty) records, dates and
\* numbers coerced, prize_amount derived from prize_level when the records
\* carry no prize_amount
NormalizeJoined(recs) ==
    LET cols == DOMAIN recs[1]
        derive == "prize_amount" \notin cols /\ "prize_level" \in cols
        out == IF derive THEN cols \cup {"prize_amount"} ELSE cols
    IN  Table(out,
              [i \in 1..Len(recs) |->
                  [c \in out |->
                      IF c = "prize_amount" /\ derive
                      THEN PrizeAmount(Coerce(recs[i].prize_level))
                      ELSE IF c \in StrCols THEN recs[i][c]
                      ELSE Coerce(recs[i][c])]])

\* a stored date that pandas cannot parse
BadDate == [k |-> "bad", n |-> 0, d |-> 1]

\* pd.DataFrame(records)
Frame(recs) == IF recs = <<>> THEN EmptyTable ELSE Table(DOMAIN recs[1], recs)

\* DataProcessor.get_all_games: pd.to_datetime(df['last_updated']) has no
\* errors='coerce' and raises on a value it cannot parse (lines 38-42)
get_all_games(b, d) ==
    LET r == get_games(b, d)
    IN  IF r.err # "none" THEN Raised(r.err)
        ELSE IF r.data = <<>> THEN EmptyTable
        ELSE IF \E i \in 1..Len(r.data) : r.data[i].last_updated = BadDate
             THEN Raised("ValueError")
        ELSE Table(DOMAIN r.data[1],
                   [i \in 1..Len(r.data) |->
                       [r.data[i] EXCEPT !.ticket_price = Coerce(@)]])

PrizeNumericCols == {"prize_level", "total_count", "claimed_count", "remaining_count"}

\* DataProcessor.get_all_prizes
get_all_prizes(b, d) ==
    LET r == get_prize_details(b, d)
        cols == IF r.data = <<>> THEN {} ELSE DOMAIN r.data[1]
        derive == "prize_amount" \notin cols /\ "prize_level" \in cols
        out == IF derive THEN cols \cup {"prize_amount"} ELSE cols
    IN  IF r.err # "none" THEN Raised(r.err)
        ELSE IF r.data = <<>> THEN EmptyTable
        ELSE Table(out,
                   [i \in 1..Len(r.data) |->
                       [c \in out |->
                           IF c = "prize_amount" /\ derive
                           THEN PrizeAmount(Coerce(r.data[i].prize_level))
                           ELSE IF c \in PrizeNumericCols THEN Coerce(r.data[i][c])
                           ELSE r.data[i][c]]])

\* mutant: the frame is used without the emptiness check
get_combined_dataUnchecked(b, d) ==
    LET r == get_games_with_prize_details(b, d)
    IN  IF r.err # "none" THEN Raised(r.err)
        ELSE IF r.data = <<>> THEN Raised("KeyError")
        ELSE CalculateAdditionalFields(NormalizeJoined(r.data))

\* DataProcessor.get_combined_data
get_combined_data(b, d) ==
    LET r == get_games_with_prize_details(b, d)
    IN  IF r.err # "none" THEN Raised(r.err)
        ELSE IF r.data = <<>> THEN EmptyTable
        ELSE CalculateAdditionalFields(NormalizeJoined(r.data))

\* DataProcessor.get_filtered_data
get_filtered_data(b, d, game_id, lo, hi, ending) ==
    LET r == get_filtered_games(b, d, game_id, lo, hi, ending)
    IN  IF r.err # "none" THEN Raised(r.err)
        ELSE IF r.data = <<>> THEN EmptyTable
        ELSE CalculateAdditionalFields(NormalizeJoined(r.data))

\* DataProcessor.get_games_to_avoid
games_to_avoid(b, d) ==
    LET r == get_games_to_avoid(b, d)
    IN  IF r.err # "none" THEN Raised(r.err)
        ELSE IF r.data = <<>> THEN EmptyTable
        ELSE AddFormattedGameName(
                 Table(AvoidCols,
                       [i \in 1..Len(r.data) |->
                           [c \in AvoidCols |->
                               IF c \in StrCols THEN r.data[i][c]
                               ELSE Coerce(r.data[i][c])]]))

\* app.py lines 187-196: the 'Games Ending Soon' metric over games_data
GamesEndingSoonCount(games_data) ==
    IF "game_close_date" \in games_data.cols
    THEN Cardinality({i \in RowIdx(games_data) :
                         /\ games_data.rows[i].game_close_date.some
                         /\ games_data.rows[i].game_close_date.s # ""})
    ELSE 0

\* app.py lines 524-530 and 611-615: (claimed / total) * 100, then fillna(0)
PercentClaimed(claimed, total) ==
    LET pct == NMul(NDiv(claimed, total), Num(100))
    IN  IF IsNaN(pct) THEN Num(0) ELSE pct

\* the 'Percent Claimed' of a prize-breakdown row: a missing claimed count is
\* filled with 0 (lines 499-504); a missing total reaches int(x) at line 511
\* unfilled, which raises
BreakdownPercent(row) ==
    IF IsNaN(row.detail_total_prizes) THEN [k |-> "raised", n |-> 0, d |-> 1]
    ELSE PercentClaimed(ZeroIfNone(row.detail_prizes_claimed), row.detail_total_prizes)

\* percent_prizes_claimed of a row of the all-games table: both counts are
\* filled with 0 first; prizes_claimed/total_prizes are used when the table has
\* them, claimed_count/total_count otherwise (lines 603-631)
AllGamesPercent(row) ==
    IF {"prizes_claimed", "total_prizes"} \subseteq DOMAIN row
    THEN PercentClaimed(ZeroIfNone(row.prizes_claimed), ZeroIfNone(row.total_prizes))
    ELSE PercentClaimed(ZeroIfNone(row.claimed_count), ZeroIfNone(row.total_count))

(***************************************************************************)
(* Inputs of _calculate_additional_fields                                  *)
(***************************************************************************)
FullCols == {"game_id", "game_name", "ticket_price", "prize_level", "prize_amount",
             "total_count", "claimed_count", "remaining_count", "last_updated"}

GameIdVals == {Str("G1"), Str("G2"), None}
TotalVals == {NaN, Num(0), Num(2)}
ClaimedVals == {NaN, Num(0), Num(1), Num(3)}
StaleRemaining == Num(7)

\* rows that vary the key and the counts; the fetched remaining_count is stale
CountRows ==
    {[game_id |-> g, game_name |-> Str("CASH"), ticket_price |-> Num(5),
      prize_level |-> Num(1), prize_amount |-> Num(10000),
      total_count |-> t, claimed_count |-> c, remaining_count |-> StaleRemaining,
      last_updated |-> Num(1)] :
        g \in GameIdVals, t \in TotalVals, c \in ClaimedVals}

\* rows that vary the game-level facts the 'first' and 'max' reducers read
FactRows ==
    {[game_id |-> g, game_name |-> nm, ticket_price |-> p,
      prize_level |-> (IF p = Num(1) THEN Num(1) ELSE Num(4)),
      prize_amount |-> (IF p = Num(1) THEN Num(10000) ELSE Num(2500)),
      total_count |-> Num(2), claimed_count |-> Num(1), remaining_count |-> Num(0),
      last_updated |-> u] :
        g \in {Str("G1"), Str("G2")}, nm \in {Str("CASH"), Str("GOLD"), None},
        p \in {Num(1), Num(5)}, u \in {Num(1), Num(2), NaN}}

\* the two tier rows of the end-to-end scenario (ticket_price 5, tiers 1 and 5)
ScenarioRows ==
    <<[game_id |-> Str("G1"), game_name |-> Str("CASH"), ticket_price |-> Num(5),
       prize_level |-> Num(1), prize_amount |-> Num(10000),
       total_count |-> Num(1000), claimed_count |-> Num(400),
       remaining_count |-> Num(600), last_updated |-> Num(1)],
      [game_id |-> Str("G1"), game_name |-> Str("CASH"), ticket_price |-> Num(5),
       prize_level |-> Num(5), prize_amount |-> Num(2000),
       total_count |-> Num(5000), claimed_count |-> Num(4500),
       remaining_count |-> Num(500), last_updated |-> Num(1)]>>

OptionalCols == {"game_name", "ticket_price", "total_count", "claimed_count",
                 "last_updated", "prize_level"}

DropCols(rows, S) ==
    Table(FullCols \ S,
          [i \in 1..Len(rows) |-> [c \in FullCols \ S |-> rows[i][c]]])

\* the scenario table with every subset of the optional columns absent
SparseTables == {DropCols(ScenarioRows, S) : S \in SUBSET OptionalCols}

\* three-row tables that vary only the key of each row
KeyTables ==
    {Table(FullCols,
           [i \in 1..3 |->
               [game_id |-> ks[i], game_name |-> Str("CASH"), ticket_price |-> Num(5),
                prize_level |-> Num(i), prize_amount |-> PrizeAmount(Num(i)),
                total_count |-> Num(2), claimed_count |-> Num(1),
                remaining_count |-> Num(1), last_updated |-> Num(1)]]) :
        ks \in [1..3 -> GameIdVals]}

FixedTables == SparseTables \cup KeyTables

(***************************************************************************)
(* Values of the variables a specification does not use                    *)
(***************************************************************************)
NoDb == [games |-> <<>>, details |-> <<>>]
NoQuery == [lo |-> 0, hi |-> 0, ending |-> "none"]
NoData == [src |-> "initial", range |-> <<>>, rows |-> "empty"]
NoFetch == [op |-> "none", via |-> 0, driver |-> "none"]

SessionOff ==
    /\ pc = "off"
    /\ conns = <<>>
    /\ stored = 0
    /\ connected = FALSE
    /\ loaded = {}
    /\ lottery_src = NoData
    /\ prev_range = <<>>
    /\ fetched = NoFetch
    /\ messages = 0
    /\ runs = 0
    /\ selected = <<>>
    /\ filter_fetches = 0

FetchOff ==
    /\ query = NoQuery
    /\ db = NoDb
    /\ backend = "off"
    /\ records = <<>>

CalcOff ==
    /\ input = EmptyTable
    /\ derived = EmptyTable
    /\ result = EmptyTable
    /\ again = EmptyTable
    /\ stage = "off"

(***************************************************************************)
(* CalcSpec: _calculate_additional_fields over the bounded inputs          *)
(***************************************************************************)
\* the tables are drawn row by row: up to MaxRows rows of one family, or one
\* of the fixed tables
CalcInit ==
    /\ \/ \E n \in 0..MaxRows : \E rs \in [1..n -> CountRows] :
             input = Table(FullCols, rs)
       \/ \E n \in 0..MaxRows : \E rs \in [1..n -> FactRows] :
             input = Table(FullCols, rs)
       \/ input \in FixedTables
    /\ derived = EmptyTable
    /\ result = EmptyTable
    /\ again = EmptyTable
    /\ stage = "input"
    /\ FetchOff
    /\ SessionOff

\* one call of _calculate_additional_fields(input); derived records the table
\* as it stands at line 260
Calculate ==
    /\ stage = "input"
    /\ derived' = (IF IsEmpty(input) THEN input ELSE DerivedFields(input))
    /\ result' = CalculateAdditionalFields(input)
    /\ stage' = "calculated"
    /\ UNCHANGED <<input, again>>
    /\ UNCHANGED <<fetchVars, sessionVars>>

\* a second call, on the table the first call returned
Recalculate ==
    /\ stage = "calculated"
    /\ result.err = "none"
    /\ again' = CalculateAdditionalFields(result)
    /\ stage' = "recalculated"
    /\ UNCHANGED <<input, derived, result>>
    /\ UNCHANGED <<fetchVars, sessionVars>>

CalcNext == Calculate \/ Recalculate

CalcSpec == CalcInit /\ [][CalcNext]_vars

(***************************************************************************)
(* FetchSpec: the DataProcessor fetch paths over bounded databases         *)
(***************************************************************************)
GameNode(num, name, price, total, claimed, close) ==
    [game_number |-> Str(num), game_name |-> Str(name), ticket_price |-> price,
     total_prizes |-> total, prizes_claimed |-> claimed,
     date_updated |-> Num(1), game_close_date |-> close]

DetailNode(num, level, total, claimed) ==
    [game_number |-> Str(num), prize_level |-> level,
     total_prizes |-> total, prizes_claimed |-> claimed]

\* game-level <<total_prizes, prizes_claimed>> of game G1
GameCounts == {<<Num(100), Num(40)>>, <<NaN, Num(3)>>, <<Num(0), Num(0)>>,
               <<Num(2), Num(3)>>}
\* tier-level <<total_prizes, prizes_claimed>>
TierCounts == {<<Num(100), Num(95)>>, <<Num(50), Num(10)>>, <<Num(100), Num(90)>>,
               <<Num(100), Num(89)>>, <<Num(0), Num(1)>>}
TierLevels == {Num(1), Num(2), NaN}

TierNodes == {DetailNode("G1", l, tc[1], tc[2]) : l \in TierLevels, tc \in TierCounts}

\* game G1 with the given counts and tiers, beside a fixed one-tier game G2
TierDb(gc, ts) ==
    [games |-> <<GameNode("G1", "CASH", Num(5), gc[1], gc[2], None),
                 GameNode("G2", "GOLD", Num(1), Num(10), Num(5), None)>>,
     details |-> ts \o <<DetailNode("G2", Num(1), Num(10), Num(9))>>]

CloseDates == {None, Str(""), Str("None"), Str("null"), Str("12/31/2026")}

\* two games with varying ticket_price and game_close_date, fixed tiers
FilterDbs ==
    {[games |-> <<GameNode("G1", "CASH", p1, Num(100), Num(40), c1),
                  GameNode("G2", "GOLD", p2, Num(10), Num(5), c2)>>,
      details |-> <<DetailNode("G1", Num(1), Num(100), Num(95)),
                    DetailNode("G1", Num(2), Num(50), Num(10)),
                    DetailNode("G2", Num(1), Num(10), Num(9))>>] :
        p1 \in {Num(1), Num(5), NaN}, c1 \in CloseDates,
        p2 \in {Num(1), Num(5)}, c2 \in {None, Str("06/30/2026")}}

\* values of the ticket-price slider (1 to 100, default (1, 100))
PriceRanges == {<<1, 100>>, <<1, 4>>, <<5, 100>>}
EndingFilters == {"include", "exclude", "only"}

\* prize levels of a one-tier game
PrizeLevels == {Num(1), Num(4), Num(0), Num(-1), NaN}

\* the empty database, one-tier games at every prize level, and games whose
\* date_updated is present, missing or unparseable
ExtraDbs ==
    {NoDb}
    \cup {TierDb(<<Num(100), Num(40)>>, <<DetailNode("G1", l, Num(100), Num(40))>>) :
            l \in PrizeLevels}
    \cup {[games |-> <<[GameNode("G1", "CASH", Num(5), Num(100), Num(40), None)
                         EXCEPT !.date_updated = u],
                       GameNode("G2", "GOLD", Num(1), Num(10), Num(5), c)>>,
           details |-> <<DetailNode("G1", Num(1), Num(100), Num(95))>>] :
            u \in {Num(2), NaN, BadDate}, c \in {None, Str("None")}}

\* the databases whose tiers vary are queried through a healthy driver, the
\* others through every kind of driver
FetchInit ==
    /\ \/ /\ \E gc \in GameCounts : \E n \in 0..MaxTiers : \E ts \in [1..n -> TierNodes] :
                db = TierDb(gc, ts)
          /\ backend = "ok"
       \/ /\ db \in FilterDbs \cup ExtraDbs
          /\ backend \in Backends
    /\ stage = "db"
    /\ query = NoQuery
    /\ records = <<>>
    /\ input = EmptyTable
    /\ derived = EmptyTable
    /\ result = EmptyTable
    /\ again = EmptyTable
    /\ SessionOff

\* app.py line 62
GetAllGames ==
    /\ stage = "db"
    /\ records' = get_games(backend, db).data
    /\ result' = get_all_games(backend, db)
    /\ stage' = "games"
    /\ UNCHANGED <<input, derived, again, query, db, backend>>
    /\ UNCHANGED sessionVars

\* app.py line 63
GetAllPrizes ==
    /\ stage = "db"
    /\ records' = get_prize_details(backend, db).data
    /\ result' = get_all_prizes(backend, db)
    /\ stage' = "prizes"
    /\ UNCHANGED <<input, derived, again, query, db, backend>>
    /\ UNCHANGED sessionVars

\* app.py line 64
GetCombinedData ==
    /\ stage = "db"
    /\ records' = get_games_with_prize_details(backend, db).data
    /\ result' = get_combined_data(backend, db)
    /\ stage' = "combined"
    /\ UNCHANGED <<input, derived, again, query, db, backend>>
    /\ UNCHANGED sessionVars

\* app.py lines 104-111
GetFilteredData ==
    /\ stage = "db"
    /\ \E r \in PriceRanges, e \in EndingFilters :
          /\ query' = [lo |-> r[1], hi |-> r[2], ending |-> e]
          /\ records' = get_filtered_games(backend, db, None, r[1], r[2], e).data
          /\ result' = get_filtered_data(backend, db, None, r[1], r[2], e)
    /\ stage' = "filtered"
    /\ UNCHANGED <<input, derived, again, db, backend>>
    /\ UNCHANGED sessionVars

\* app.py lines 200-203
GetGamesToAvoid ==
    /\ stage = "db"
    /\ records' = get_games_to_avoid(backend, db).data
    /\ result' = games_to_avoid(backend, db)
    /\ stage' = "avoid"
    /\ UNCHANGED <<input, derived, again, query, db, backend>>
    /\ UNCHANGED sessionVars

\* app.py lines 360-366: the prize details of the game picked in the selectbox
GetGamePrizeDetails ==
    /\ stage = "db"
    /\ \E id \in {"G1", "G2"} :
          LET r == get_game_prize_details(backend, db, Str(id))
          IN  /\ records' = r.data
              /\ result' = (IF r.err # "none" THEN Raised(r.err) ELSE Frame(r.data))
    /\ stage' = "game_details"
    /\ UNCHANGED <<input, derived, again, query, db, backend>>
    /\ UNCHANGED sessionVars

FetchNext ==
    \/ GetAllGames
    \/ GetAllPrizes
    \/ GetCombinedData
    \/ GetFilteredData
    \/ GetGamesToAvoid
    \/ GetGamePrizeDetails

FetchSpec == FetchInit /\ [][FetchNext]_vars

(***************************************************************************)
(* DataSpec: the data layer entered either way, at                         *)
(* _calculate_additional_fields with a table or at the DataProcessor with  *)
(* a database                                                              *)
(***************************************************************************)
DataInit == CalcInit \/ FetchInit

DataNext == CalcNext \/ FetchNext

DataSpec == DataInit /\ [][DataNext]_vars

(***************************************************************************)
(* Spec: the session of app.py.  Every script run executes main() from the *)
(* top; st.session_state (stored, connected, the data tables,              *)
(* prev_range) survives from one run to the next.                          *)
(***************************************************************************)
\* mutant: close() leaves the driver as it is
closeKeepsDriver(driver) == driver

\* Neo4jConnector.close: if self.driver: self.driver.close()
close(driver) == IF driver = "open" THEN "closed" ELSE driver

\* Neo4jConnector.__init__: self.driver is None when GraphDatabase.driver raised
NewConnector(driverOk) == IF driverOk THEN "open" ELSE "none"

\* what a fetch through a connector can deliver: execute_query returns the
\* empty result without a driver and on every error; a driver that was closed
\* serves the query or fails, depending on the driver release
FetchOutcomes(driver) == IF driver = "none" THEN {"empty"} ELSE {"rows", "empty"}

Fetch(op) == [op |-> op, via |-> stored, driver |-> conns[stored]]

SessionInit ==
    /\ pc = "idle"
    /\ conns = <<>>
    /\ stored = 0
    /\ connected = FALSE
    /\ loaded = {}
    /\ lottery_src = NoData
    /\ prev_range = <<>>
    /\ fetched = NoFetch
    /\ messages = 0
    /\ runs = 0
    /\ selected = <<>>
    /\ filter_fetches = 0
    /\ FetchOff
    /\ CalcOff

\* lines 42-47: a script run starts by closing the connector kept in the session
CloseStored ==
    /\ pc = "idle"
    /\ runs < MaxRuns
    /\ runs' = runs + 1
    /\ conns' = (IF stored = 0 THEN conns
                 ELSE [conns EXCEPT ![stored] = close(conns[stored])])
    /\ pc' = "connect"
    /\ UNCHANGED <<stored, connected, loaded, lottery_src, prev_range, fetched,
                   messages>>
    /\ UNCHANGED <<calcVars, fetchVars, filterVars>>

\* mutant: the connection is attempted only while no connector is stored
ConnectOnce ==
    /\ pc = "connect"
    /\ ~connected
    /\ IF stored = 0
       THEN \E driverOk \in BOOLEAN, testOk \in BOOLEAN :
               /\ conns' = Append(conns, NewConnector(driverOk))
               /\ stored' = Len(conns) + 1
               /\ IF driverOk /\ testOk
                  THEN /\ connected' = TRUE
                       /\ pc' = "load"
                       /\ UNCHANGED messages
                  ELSE /\ messages' = messages + 1
                       /\ pc' = "sidebar"
                       /\ UNCHANGED connected
       ELSE /\ pc' = "sidebar"
            /\ UNCHANGED <<conns, stored, connected, messages>>
    /\ UNCHANGED <<loaded, lottery_src, prev_range, fetched, runs>>
    /\ UNCHANGED <<calcVars, fetchVars, filterVars>>

\* lines 50-59, 66-68: not connected, so a new connector is built, stored and tested
Connect ==
    /\ pc = "connect"
    /\ ~connected
    /\ \E driverOk \in BOOLEAN, testOk \in BOOLEAN :
          /\ conns' = Append(conns, NewConnector(driverOk))
          /\ stored' = Len(conns) + 1
          /\ IF driverOk /\ testOk
             THEN /\ connected' = TRUE
                  /\ pc' = "load"
                  /\ UNCHANGED messages
             ELSE /\ messages' = messages + 1
                  /\ pc' = "sidebar"
                  /\ UNCHANGED connected
    /\ UNCHANGED <<loaded, lottery_src, prev_range, fetched, runs>>
    /\ UNCHANGED <<calcVars, fetchVars, filterVars>>

\* line 50: already connected, nothing is opened
SkipConnect ==
    /\ pc = "connect"
    /\ connected
    /\ pc' = "sidebar"
    /\ UNCHANGED <<conns, stored, connected, loaded, lottery_src, prev_range,
                   fetched, messages, runs>>
    /\ UNCHANGED <<calcVars, fetchVars, filterVars>>

\* lines 61-65, 69-70: the three initial loads; get_all_games parses its dates
\* without errors='coerce', so it can raise into the except of line 69
LoadInitialData ==
    /\ pc = "load"
    /\ \E raises \in BOOLEAN, rows \in FetchOutcomes(conns[stored]) :
          IF raises
          THEN /\ fetched' = Fetch("get_games")
               /\ messages' = messages + 1
               /\ UNCHANGED <<loaded, lottery_src>>
          ELSE /\ fetched' = Fetch("get_games_with_prize_details")
               /\ loaded' = {"games_data", "prizes_data", "lottery_data"}
               /\ lottery_src' = [src |-> "combined", range |-> <<>>, rows |-> rows]
               /\ UNCHANGED messages
    /\ pc' = "sidebar"
    /\ UNCHANGED <<conns, stored, connected, prev_range, runs>>
    /\ UNCHANGED <<calcVars, fetchVars, filterVars>>

\* line 77: the filters are shown only to a connected session
SidebarHidden ==
    /\ pc = "sidebar"
    /\ ~connected
    /\ pc' = "render"
    /\ UNCHANGED <<conns, stored, connected, loaded, lottery_src, prev_range,
                   fetched, messages, runs>>
    /\ UNCHANGED <<calcVars, fetchVars, filterVars>>

\* st.session_state.prev_filter_price_range after lines 81-82
PrevRange == IF prev_range = <<>> THEN <<1, 100>> ELSE prev_range

\* mutant: the filter change builds and stores a new connector for its fetch
ApplyFiltersReconnect ==
    /\ pc = "sidebar"
    /\ connected
    /\ selected # <<>>
    /\ conns' = Append(conns, NewConnector(TRUE))
    /\ stored' = Len(conns) + 1
    /\ \E sel \in PriceRanges, rows \in FetchOutcomes("open") :
          /\ sel # PrevRange
          /\ selected' = sel
          /\ fetched' = [op |-> "get_filtered_games", via |-> Len(conns) + 1,
                         driver |-> "open"]
          /\ lottery_src' = [src |-> "filtered", range |-> sel, rows |-> rows]
          /\ prev_range' = sel
    /\ filter_fetches' = filter_fetches + 1
    /\ loaded' = loaded \cup {"lottery_data"}
    /\ pc' = "render"
    /\ UNCHANGED <<connected, messages, runs>>
    /\ UNCHANGED <<calcVars, fetchVars>>

\* mutant: the fetch is made but the last applied range is not updated
ApplyFiltersStale ==
    /\ pc = "sidebar"
    /\ connected
    /\ selected # <<>>
    /\ \E sel \in PriceRanges, rows \in FetchOutcomes(conns[stored]) :
          /\ sel # PrevRange
          /\ selected' = sel
          /\ fetched' = Fetch("get_filtered_games")
          /\ lottery_src' = [src |-> "filtered", range |-> sel, rows |-> rows]
    /\ prev_range' = PrevRange
    /\ filter_fetches' = filter_fetches + 1
    /\ loaded' = loaded \cup {"lottery_data"}
    /\ pc' = "render"
    /\ UNCHANGED <<conns, stored, connected, messages, runs>>
    /\ UNCHANGED <<calcVars, fetchVars>>

\* lines 93-115: the slider range differs from the last applied one
ApplyFilters ==
    /\ pc = "sidebar"
    /\ connected
    /\ selected # <<>>      \* when first shown the slider returns its default
    /\ \E sel \in PriceRanges, rows \in FetchOutcomes(conns[stored]) :
          /\ sel # PrevRange
          /\ selected' = sel
          /\ fetched' = Fetch("get_filtered_games")
          /\ lottery_src' = [src |-> "filtered", range |-> sel, rows |-> rows]
          /\ prev_range' = sel
    /\ filter_fetches' = filter_fetches + 1
    /\ loaded' = loaded \cup {"lottery_data"}
    /\ pc' = "render"
    /\ UNCHANGED <<conns, stored, connected, messages, runs>>
    /\ UNCHANGED <<calcVars, fetchVars>>

\* lines 81-98: the slider range is the last applied one, nothing is fetched
KeepFilters ==
    /\ pc = "sidebar"
    /\ connected
    /\ selected' = PrevRange
    /\ prev_range' = PrevRange
    /\ pc' = "render"
    /\ UNCHANGED <<conns, stored, connected, loaded, lottery_src, fetched,
                   messages, runs, filter_fetches>>
    /\ UNCHANGED <<calcVars, fetchVars>>

\* lines 120-139: the preview shown to a session that is not connected
RenderPreview ==
    /\ pc = "render"
    /\ ~connected
    /\ pc' = "idle"
    /\ UNCHANGED <<conns, stored, connected, loaded, lottery_src, prev_range,
                   fetched, messages, runs>>
    /\ UNCHANGED <<calcVars, fetchVars, filterVars>>

\* lines 198-215: the dashboard fetches the games to avoid on every run
RenderDashboard ==
    /\ pc = "render"
    /\ connected
    /\ fetched' = Fetch("get_games_to_avoid")
    /\ pc' = "details"
    /\ UNCHANGED <<conns, stored, connected, loaded, lottery_src, prev_range,
                   messages, runs>>
    /\ UNCHANGED <<calcVars, fetchVars, filterVars>>

\* lines 347-366: a game picked in the details selectbox is fetched by its id
FetchGameDetails ==
    /\ pc = "details"
    /\ lottery_src.rows = "rows"
    /\ fetched' = Fetch("get_game_prize_details")
    /\ pc' = "idle"
    /\ UNCHANGED <<conns, stored, connected, loaded, lottery_src, prev_range,
                   messages, runs>>
    /\ UNCHANGED <<calcVars, fetchVars, filterVars>>

\* line 348: no game is picked
NoGameDetails ==
    /\ pc = "details"
    /\ pc' = "idle"
    /\ UNCHANGED <<conns, stored, connected, loaded, lottery_src, prev_range,
                   fetched, messages, runs>>
    /\ UNCHANGED <<calcVars, fetchVars, filterVars>>

Next ==
    \/ CloseStored
    \/ Connect
    \/ SkipConnect
    \/ LoadInitialData
    \/ SidebarHidden
    \/ ApplyFilters
    \/ KeepFilters
    \/ RenderPreview
    \/ RenderDashboard
    \/ FetchGameDetails
    \/ NoGameDetails

Spec == SessionInit /\ [][Next]_vars

(***************************************************************************)
(* Claims about the fetch paths (FetchSpec)                                *)
(***************************************************************************)
ScenarioTiers ==
    <<DetailNode("G1", Num(1), Num(100), Num(95)),
      DetailNode("G1", Num(2), Num(50), Num(10)),
      DetailNode("G2", Num(1), Num(10), Num(9))>>

\* the game's top tier as the data processor reads prize_level ("1" is the
\* highest level, data_processor.py line 116): the minimum prize_level
MinPrizeLevel(d, g) ==
    LET ls == {d.details[j].prize_level : j \in GameDetails(d, g)}
        ok == {l \in ls : ~IsNaN(l)}
    IN  IF ok = {} THEN NaN ELSE CHOOSE l \in ok : \A m \in ok : NGe(m, l)

GamesNumbered(id) == {gi \in 1..Len(db.games) : db.games[gi].game_number = id}

\* C1: Games-to-Avoid evaluates, for each game, only the tier with the minimum
\* prize_level: every returned row is a minimum-level tier of its game, every
\* game whose minimum-level tier has a claim rate >= 0.9 is returned, and G1 with
\* tiers (1, 100, 95) and (2, 50, 10) is returned with claim_rate 0.95 (the
\* driver serving the query).
C1_TopTierIsMinimumLevel ==
    (stage = "avoid" /\ backend = "ok") =>
        /\ \A k \in RowIdx(result) : \A gi \in GamesNumbered(result.rows[k].game_id) :
              result.rows[k].prize_level = MinPrizeLevel(db, db.games[gi])
        /\ \A gi \in 1..Len(db.games) : \A j \in GameDetails(db, db.games[gi]) :
              (/\ db.details[j].prize_level = MinPrizeLevel(db, db.games[gi])
               /\ IsNum(db.details[j].prize_level)
               /\ NGe(ClaimRate(db.details[j]), Rat(9, 10)))
              => \E k \in RowIdx(result) :
                    result.rows[k].game_id = db.games[gi].game_number
        /\ db.details = ScenarioTiers =>
              \E k \in RowIdx(result) :
                 /\ result.rows[k].game_id = Str("G1")
                 /\ result.rows[k].claim_rate = Rat(95, 100)

\* C2: the total_count and claimed_count of every row delivered by
\* get_combined_data / get_filtered_data equal the game-level totals of the
\* row's game, however many tier rows the game has in the joined fetch.
C2_GameLevelTotals ==
    (stage \in {"combined", "filtered"} /\ result.err = "none") =>
        \A k \in RowIdx(result) : \A gi \in GamesNumbered(result.rows[k].game_id) :
            (IsNum(db.games[gi].total_prizes) /\ IsNum(db.games[gi].prizes_claimed))
            => /\ result.rows[k].total_count = db.games[gi].total_prizes
               /\ result.rows[k].claimed_count = db.games[gi].prizes_claimed

\* the tiers of game g at its minimum prize_level
TopTiers(d, g) ==
    {j \in GameDetails(d, g) : /\ IsNum(d.details[j].prize_level)
                               /\ d.details[j].prize_level = MinPrizeLevel(d, g)}

\* claimed/total >= 0.9 over the integers, for a positive total
RateAtLeast90(t) ==
    /\ IsNum(t.total_prizes) /\ IsNum(t.prizes_claimed)
    /\ t.total_prizes.n > 0
    /\ 10 * t.prizes_claimed.n >= 9 * t.total_prizes.n

\* C11: a game is in the Games-to-Avoid result if and only if the claim rate
\* claimed/total of its top tier is >= 0.9, the boundary included (100/90 in,
\* 100/89 out).  Stated for the games with one top tier whose counts are
\* present and whose total is positive, the driver serving the query.
C11_IncludedIffTopTierRateAtLeast90 ==
    (stage = "avoid" /\ backend = "ok") =>
        \A gi \in 1..Len(db.games) :
            LET top == TopTiers(db, db.games[gi])
            IN  (/\ Cardinality(top) = 1
                 /\ \A j \in top : /\ IsNum(db.details[j].total_prizes)
                                    /\ IsNum(db.details[j].prizes_claimed)
                                    /\ db.details[j].total_prizes.n > 0)
                => ((\E k \in RowIdx(result) :
                        result.rows[k].game_id = db.games[gi].game_number)
                    <=> \E j \in top : RateAtLeast90(db.details[j]))

\* C12: every fetch operation of the connector fails soft: when the driver is
\* missing or the query fails, the operation returns an empty sequence and no
\* exception reaches the caller, whatever the database holds.
C12_FetchFailsSoft ==
    (stage \in {"games", "prizes", "combined", "filtered", "avoid", "game_details"}
       /\ backend \in {"error", "no_driver"})
    => (records = <<>> /\ result.err = "none")

\* C12 witness: a query that would have matched rows was sent without a driver
C12_Witness ==
    /\ stage = "game_details"
    /\ backend = "no_driver"
    /\ JoinPairs(db) # <<>>
    /\ records = <<>>
    /\ result.err = "none"

\* amount is 10000/level for a level > 0 and 0 for a level that is 0, negative
\* or missing
HeuristicAmount(level, amount) ==
    IF IsNum(level) /\ level.n > 0
    THEN /\ IsNum(amount)
         /\ amount.n * level.n = 10000 * level.d * amount.d
         /\ level = Num(1) => amount = Num(10000)
         /\ level = Num(4) => amount = Num(2500)
    ELSE amount = Num(0)

\* C15: the records of get_prize_details, get_games_with_prize_details and
\* get_filtered_games carry prize_level and no prize_amount, and every row of
\* the table made from them that still has its prize_level has the derived
\* prize_amount: 10000/prize_level for a level > 0 (1 -> 10000, 4 -> 2500), 0
\* for a level that is 0, negative or missing.
C15_PrizeAmountHeuristic ==
    (stage \in {"prizes", "combined", "filtered"} /\ result.err = "none") =>
        /\ \A i \in 1..Len(records) : "prize_amount" \notin DOMAIN records[i]
        /\ "prize_level" \in result.cols =>
              /\ "prize_amount" \in result.cols
              /\ \A k \in RowIdx(result) :
                    HeuristicAmount(result.rows[k].prize_level,
                                    result.rows[k].prize_amount)

\* C15 witness: a level-4 tier and a level-1 tier got 2500 and 10000
C15_Witness ==
    /\ stage = "combined"
    /\ result.err = "none"
    /\ "prize_amount" \in result.cols
    /\ \E k \in RowIdx(result) : /\ result.rows[k].prize_level = Num(4)
                                  /\ result.rows[k].prize_amount = Num(2500)
    /\ \E k \in RowIdx(result) : /\ result.rows[k].prize_level = Num(1)
                                  /\ result.rows[k].prize_amount = Num(10000)

\* the game_close_date is present and none of "", "None", "null"
CloseDatePresent(g) ==
    /\ g.game_close_date.some
    /\ g.game_close_date.s # ""
    /\ g.game_close_date.s # "None"
    /\ g.game_close_date.s # "null"

\* the game has a tier and a ticket_price inside the queried range
InPriceRange(g) ==
    /\ GameDetails(db, g) # {}
    /\ IsNum(g.ticket_price)
    /\ query.lo * g.ticket_price.d <= g.ticket_price.n
    /\ g.ticket_price.n <= query.hi * g.ticket_price.d

FetchedIds == {records[i].game_id : i \in 1..Len(records)}

\* C16: among the games the price range admits, get_filtered_games with
\* ending_filter 'only' returns exactly those whose game_close_date is present
\* and none of "", "None", "null"; with 'exclude' exactly the others; with
\* 'include' all of them.
C16_EndingFilterMapping ==
    (stage = "filtered" /\ backend = "ok") =>
        \A gi \in 1..Len(db.games) :
            LET g == db.games[gi]
            IN  g.game_number \in FetchedIds <=>
                   /\ InPriceRange(g)
                   /\ query.ending = "only" => CloseDatePresent(g)
                   /\ query.ending = "exclude" => ~CloseDatePresent(g)

\* C16 witness: 'only' dropped a game whose game_close_date is the string
\* "None" and kept one with a date
C16_Witness ==
    /\ stage = "filtered"
    /\ backend = "ok"
    /\ query.ending = "only"
    /\ \E gi \in 1..Len(db.games) :
          /\ db.games[gi].game_close_date = Str("None")
          /\ InPriceRange(db.games[gi])
          /\ db.games[gi].game_number \notin FetchedIds
    /\ \E gi \in 1..Len(db.games) :
          /\ db.games[gi].game_close_date = Str("06/30/2026")
          /\ db.games[gi].game_number \in FetchedIds

\* C17: the dashboard's 'Games Ending Soon' count over games_data equals the
\* number of games get_filtered_games selects with ending_filter 'only' over
\* the whole slider range, whatever game_close_date each game carries (null,
\* "", "None", "null" or a date).  Stated for the databases in which every game
\* has a tier and a ticket_price inside the slider range.
C17_EndingSoonCountMatchesOnlyFilter ==
    (/\ stage = "games"
     /\ backend = "ok"
     /\ result.err = "none"
     /\ \A gi \in 1..Len(db.games) :
           FilterKeeps(db.games[gi], None, 1, 100, "include")
     /\ \A gi \in 1..Len(db.games) : GameDetails(db, db.games[gi]) # {})
    => GamesEndingSoonCount(result) =
          LET only == get_filtered_games(backend, db, None, 1, 100, "only").data
          IN  Cardinality({only[i].game_id : i \in 1..Len(only)})

\* C22: the 'Percent Claimed' of every prize-breakdown row and of every row
\* of the all-games table is a finite number, and is 0 whenever the total prize
\* count is 0, whatever the claimed count.
C22_PercentClaimedFinite ==
    /\ (stage = "game_details" /\ result.err = "none") =>
          \A k \in RowIdx(result) :
              ~IsNaN(result.rows[k].detail_total_prizes) =>
                 /\ IsNum(BreakdownPercent(result.rows[k]))
                 /\ result.rows[k].detail_total_prizes = Num(0)
                    => BreakdownPercent(result.rows[k]) = Num(0)
    /\ (stage \in {"combined", "filtered"} /\ result.err = "none") =>
          \A k \in RowIdx(result) :
              /\ IsNum(AllGamesPercent(result.rows[k]))
              /\ result.rows[k].total_count = Num(0)
                 => AllGamesPercent(result.rows[k]) = Num(0)

\* C24: a date that does not parse is never fatal: get_all_games,
\* get_combined_data and get_filtered_data return a table, in which the
\* last_updated of such a record is missing.
C24_UnparseableDateBecomesMissing ==
    (stage \in {"games", "combined", "filtered"} /\ backend = "ok") =>
        /\ result.err = "none"
        /\ Len(result.rows) = Len(records) =>
              \A i \in 1..Len(records) :
                  records[i].last_updated = BadDate
                  => IsNaN(result.rows[i].last_updated)

\* C26: lottery_data depends on the selected ticket-price range alone: the
\* table of the initial load (get_combined_data, shown with the slider at
\* (1, 100)) is the table shown after returning to (1, 100) from another range
\* (get_filtered_data with 1, 100 and 'include') over the same database.
C26_DataIsFunctionOfRange ==
    (stage = "combined" /\ backend = "ok") =>
        result = get_filtered_data(backend, db, None, 1, 100, "include")

\* the games in a list of joined records
IdsOf(recs) == {recs[i].game_id : i \in 1..Len(recs)}
RecordsOf(recs) == {recs[i] : i \in 1..Len(recs)}

\* C27: for the price range of the fetch that ran and every game_id, the
\* results of get_filtered_games with 'only' and with 'exclude' are disjoint
\* and their union is the result with 'include'; the fetch that ran returned
\* the part its ending_filter names.
C27_OnlyAndExcludePartitionInclude ==
    (stage = "filtered" /\ backend = "ok") =>
        /\ records = get_filtered_games(backend, db, None, query.lo, query.hi,
                                        query.ending).data
        /\ \A id \in {None, Str("G1"), Str("G2")} :
              LET lo == query.lo
                  hi == query.hi
                  only == get_filtered_games(backend, db, id, lo, hi, "only").data
                  excl == get_filtered_games(backend, db, id, lo, hi, "exclude").data
                  incl == get_filtered_games(backend, db, id, lo, hi, "include").data
              IN  /\ IdsOf(only) \cap IdsOf(excl) = {}
                  /\ RecordsOf(only) \cap RecordsOf(excl) = {}
                  /\ RecordsOf(only) \cup RecordsOf(excl) = RecordsOf(incl)
                  /\ Len(only) + Len(excl) = Len(incl)

\* C27 witness: over the whole slider range one game was returned by 'only'
\* and the other by 'exclude'
C27_Witness ==
    /\ stage = "filtered"
    /\ backend = "ok"
    /\ query = [lo |-> 1, hi |-> 100, ending |-> "only"]
    /\ IdsOf(records) = {Str("G2")}
    /\ IdsOf(get_filtered_games(backend, db, None, 1, 100, "exclude").data)
          = {Str("G1")}
    /\ db.games[1].game_close_date = Str("null")

\* the joined fetch was aggregated into one row per game
JoinedAggregated ==
    /\ stage \in {"combined", "filtered"}
    /\ backend = "ok"
    /\ result.err = "none"
    /\ Len(result.rows) > 0
    /\ Len(records) > Len(result.rows)

\* the number of tier rows the fetch returned for the game
TierRowsOf(id) == Cardinality({i \in 1..Len(records) : records[i].game_id = id})

\* C29: after a joined fetch (get_combined_data, get_filtered_data) was
\* aggregated, the win_probability of every game whose game-level total is
\* positive and whose claimed count is present equals (total - claimed) / total
\* of the game-level counts, whether the game has one tier row or several.
C29_WinProbabilityIndependentOfTierRows ==
    JoinedAggregated =>
        \A k \in RowIdx(result) : \A j \in 1..Len(db.games) :
            LET r == result.rows[k]
                g == db.games[j]
            IN  (/\ g.game_number = r.game_id
                 /\ IsNum(g.total_prizes)
                 /\ IsNum(g.prizes_claimed)
                 /\ g.total_prizes.n > 0)
                => /\ TierRowsOf(r.game_id) >= 1
                   /\ IsNum(r.win_probability)
                   /\ r.win_probability.n * g.total_prizes.n
                         = (g.total_prizes.n - g.prizes_claimed.n) * r.win_probability.d

\* C29 witness: G1 (100 prizes, 40 claimed) came back with two tier rows and
\* G2 (10 prizes, 5 claimed) with one, and both have their game-level ratio
C29_Witness ==
    /\ JoinedAggregated
    /\ stage = "combined"
    /\ Len(result.rows) = 2
    /\ TierRowsOf(Str("G1")) = 2
    /\ TierRowsOf(Str("G2")) = 1
    /\ db.games[1].total_prizes = Num(100)
    /\ db.games[1].prizes_claimed = Num(40)
    /\ \E k \in RowIdx(result) :
          /\ result.rows[k].game_id = Str("G1")
          /\ result.rows[k].win_probability.n * 100 = 60 * result.rows[k].win_probability.d
    /\ \E k \in RowIdx(result) :
          /\ result.rows[k].game_id = Str("G2")
          /\ result.rows[k].win_probability.n * 10 = 5 * result.rows[k].win_probability.d

(***************************************************************************)
(* Claims about _calculate_additional_fields (CalcSpec)                    *)
(***************************************************************************)
Calculated == stage \in {"calculated", "recalculated"}

\* the call aggregated: the input had more rows than distinct game_id values
Aggregated ==
    /\ Calculated
    /\ ~IsEmpty(input)
    /\ "game_id" \in input.cols
    /\ Len(input.rows) > Cardinality({input.rows[i].game_id : i \in RowIdx(input)})

NLe0(v) == IsNum(v) /\ v.n <= 0

WinProbabilityInRange(row) ==
    "win_probability" \in DOMAIN row =>
        /\ IsNum(row.win_probability)
        /\ 0 <= row.win_probability.n
        /\ row.win_probability.n <= row.win_probability.d
        /\ (NLe0(row.total_count) \/ NLe0(row.remaining_count))
           => row.win_probability = Num(0)

\* C3: in every row produced by _calculate_additional_fields, before or after
\* aggregation, win_probability lies in [0, 1] and is 0 whenever total_count <= 0
\* or remaining_count <= 0.
C3_WinProbabilityInUnitInterval ==
    (Calculated /\ result.err = "none") =>
        /\ \A i \in RowIdx(derived) : WinProbabilityInRange(derived.rows[i])
        /\ \A k \in RowIdx(result) : WinProbabilityInRange(result.rows[k])

\* C4: after aggregation the number of output rows equals the number of
\* distinct game_id values of the input (a missing game_id being one value, as
\* df['game_id'].unique() counts it).
C4_RowCountIsDistinctGameIds ==
    (Aggregated /\ result.err = "none") =>
        Len(result.rows) = Cardinality({input.rows[i].game_id : i \in RowIdx(input)})

NothingMissing(df) ==
    \A i \in RowIdx(df) : \A c \in DOMAIN df.rows[i] : ~IsMissing(df.rows[i][c])

\* C5: aggregation is idempotent: _calculate_additional_fields applied to its own
\* aggregated output returns that output, equal in every field.  Stated for the
\* inputs in which no value is missing, which include a summed remaining_count
\* <= 0 beside a summed total_count > 0.
C5_AggregationIdempotent ==
    (stage = "recalculated" /\ Aggregated /\ NothingMissing(input)) => again = result

\* C8: in the unaggregated derived table remaining_count is total_count minus
\* claimed_count wherever both are present, whatever remaining_count was fetched.
C8_RemainingRecomputed ==
    (Calculated /\ {"total_count", "claimed_count"} \subseteq input.cols) =>
        \A i \in RowIdx(input) :
            (IsNum(input.rows[i].total_count) /\ IsNum(input.rows[i].claimed_count))
            => derived.rows[i].remaining_count =
                  Num(input.rows[i].total_count.n - input.rows[i].claimed_count.n)

\* C8 witness: a row whose fetched remaining_count disagreed with its counts
C8_Witness ==
    /\ stage = "calculated"
    /\ {"total_count", "claimed_count", "remaining_count"} \subseteq input.cols
    /\ \E i \in RowIdx(input) :
          /\ IsNum(input.rows[i].total_count) /\ IsNum(input.rows[i].claimed_count)
          /\ input.rows[i].remaining_count #
                Num(input.rows[i].total_count.n - input.rows[i].claimed_count.n)
          /\ derived.rows[i].remaining_count =
                Num(input.rows[i].total_count.n - input.rows[i].claimed_count.n)

\* C9: rows returned after aggregation never contain expected_value, although
\* it was computed on the tier rows.
C9_NoExpectedValueAfterAggregation ==
    (Aggregated /\ result.err = "none") =>
        /\ "expected_value" \notin result.cols
        /\ \A k \in RowIdx(result) : "expected_value" \notin DOMAIN result.rows[k]

\* C9 witness: tier rows carrying expected_value were aggregated
C9_Witness ==
    /\ Aggregated
    /\ result.err = "none"
    /\ "expected_value" \in derived.cols
    /\ \E i \in RowIdx(derived) : IsNum(derived.rows[i].expected_value)
    /\ Len(result.rows) >= 1

\* integer value of a count, a missing one counting 0 as 'sum' skips it
CountOrZero(v) == IF IsNum(v) THEN v.n ELSE 0

RemainingOf(row) ==
    IF IsNum(row.total_count) /\ IsNum(row.claimed_count)
    THEN row.total_count.n - row.claimed_count.n ELSE 0

RECURSIVE IntSum(_, _)
IntSum(f, S) ==
    IF S = {} THEN 0
    ELSE LET x == CHOOSE y \in S : TRUE IN f[x] + IntSum(f, S \ {x})

ReducersHold(r) ==
    LET grp == {i \in RowIdx(input) : input.rows[i].game_id = r.game_id}
        tot == IntSum([i \in grp |-> CountOrZero(input.rows[i].total_count)], grp)
        clm == IntSum([i \in grp |-> CountOrZero(input.rows[i].claimed_count)], grp)
        rem == IntSum([i \in grp |-> RemainingOf(input.rows[i])], grp)
    IN  /\ grp # {}
        /\ r.total_count = Num(tot)
        /\ r.claimed_count = Num(clm)
        /\ r.remaining_count = Num(rem)
        /\ \E i \in grp : r.ticket_price = input.rows[i].ticket_price
        /\ \E i \in grp : r.game_name = input.rows[i].game_name
        /\ IF tot > 0
           THEN /\ IsNum(r.win_probability)
                /\ r.win_probability.n * tot = rem * r.win_probability.d
           ELSE r.win_probability = Num(0)

\* C10: the aggregated total_count, claimed_count and remaining_count of a game
\* are the sums over its rows, ticket_price and game_name come from one of its
\* rows, win_probability is sum(remaining_count)/sum(total_count) (0 when the
\* denominator is not positive); the two G1 rows (1000, 400) and (5000, 4500)
\* give 6000, 4900, 1100 and 1100/6000.
C10_AggregationReducers ==
    (Aggregated /\ result.err = "none") =>
        /\ \A k \in RowIdx(result) : ReducersHold(result.rows[k])
        /\ input.rows = ScenarioRows =>
              /\ Len(result.rows) = 1
              /\ result.rows[1].total_count = Num(6000)
              /\ result.rows[1].claimed_count = Num(4900)
              /\ result.rows[1].remaining_count = Num(1100)
              /\ result.rows[1].ticket_price = Num(5)
              /\ result.rows[1].win_probability.n * 6000
                    = 1100 * result.rows[1].win_probability.d

\* C10 witness: the end-to-end scenario was aggregated to one row
C10_Witness ==
    /\ stage = "calculated"
    /\ input = Table(FullCols, ScenarioRows)
    /\ Len(result.rows) = 1
    /\ result.rows[1].total_count = Num(6000)

\* C14: for a non-empty table with several rows per game_id,
\* _calculate_additional_fields returns without raising whichever of the
\* optional columns (game_name, ticket_price, total_count, claimed_count,
\* last_updated, prize_level) are absent.
C14_AbsentColumnNeverFatal ==
    (/\ Calculated
     /\ "game_id" \in input.cols
     /\ Len(input.rows) > Cardinality({input.rows[i].game_id : i \in RowIdx(input)}))
    => result.err = "none"

\* the game_id values present in the input
InputGames == {input.rows[i].game_id : i \in RowIdx(input)} \ {None}

\* C20: a table with exactly one row per game_id is returned with the same
\* rows, prize_level and prize_amount kept and expected_value kept where it was
\* derived; a table in which some game_id has two or more rows is returned
\* with exactly one row for every game.
C20_AggregationIffMoreRowsThanGames ==
    (Calculated /\ Len(input.rows) > 0 /\ "game_id" \in input.cols) =>
        IF Len(input.rows) = Cardinality({input.rows[i].game_id : i \in RowIdx(input)})
        THEN /\ result.err = "none"
             /\ Len(result.rows) = Len(input.rows)
             /\ \A i \in RowIdx(input) :
                   \A c \in input.cols \cap {"game_id", "prize_level", "prize_amount"} :
                       result.rows[i][c] = input.rows[i][c]
             /\ "expected_value" \in derived.cols =>
                   \A i \in RowIdx(input) :
                       result.rows[i].expected_value = derived.rows[i].expected_value
        ELSE /\ result.err = "none"
             /\ \A g \in InputGames :
                   Cardinality({k \in RowIdx(result) : result.rows[k].game_id = g}) = 1
             /\ \A k \in RowIdx(result) : result.rows[k].game_id \in InputGames

\* the row's formatted_game_name is "{game_name} ({game_id})" when both are
\* present, and absent (no such field, or a missing value) otherwise
FormattedNameAsSpecified(row) ==
    IF /\ {"game_name", "game_id"} \subseteq DOMAIN row
       /\ row.game_name.some
       /\ row.game_id.some
    THEN /\ "formatted_game_name" \in DOMAIN row
         /\ row.formatted_game_name =
               Str(row.game_name.s \o " (" \o row.game_id.s \o ")")
    ELSE \/ "formatted_game_name" \notin DOMAIN row
         \/ ~row.formatted_game_name.some

\* C21: formatted_game_name equals "{game_name} ({game_id})" in every output
\* row in which both game_name and game_id are present and is absent in every
\* row in which either is missing, before and after aggregation.
C21_FormattedGameName ==
    (Calculated /\ result.err = "none") =>
        /\ \A i \in RowIdx(derived) : FormattedNameAsSpecified(derived.rows[i])
        /\ \A k \in RowIdx(result) : FormattedNameAsSpecified(result.rows[k])

\* C23: in every row in which total_count, claimed_count, prize_amount or
\* ticket_price is missing, the derived expected_value is missing.
C23_MissingPropagatesToExpectedValue ==
    (/\ Calculated
     /\ {"total_count", "claimed_count", "prize_amount", "ticket_price"}
           \subseteq input.cols
     /\ Len(input.rows) > 0)
    => \A i \in RowIdx(input) :
          (\E c \in {"total_count", "claimed_count", "prize_amount", "ticket_price"} :
              IsNaN(input.rows[i][c]))
          => IsNaN(derived.rows[i].expected_value)

\* C28: after aggregation every row's remaining_count equals its aggregated
\* total_count minus its aggregated claimed_count, and its unclaimed_prizes
\* equals its remaining_count, also when total_count or claimed_count is
\* missing in some of the game's rows.
C28_AggregatedRemainingIsTotalMinusClaimed ==
    (Aggregated /\ result.err = "none") =>
        \A k \in RowIdx(result) :
            LET r == result.rows[k]
            IN  /\ r.remaining_count = NSub(r.total_count, r.claimed_count)
                /\ r.unclaimed_prizes = r.remaining_count

(***************************************************************************)
(* Claims about the session (Spec)                                         *)
(***************************************************************************)
\* C6: once a connection has succeeded, every fetch (filtered fetch, games to
\* avoid, prize details of a game) goes through a handle that was not closed.
C6_FetchThroughOpenHandle ==
    fetched.op # "none" => fetched.driver # "closed"

\* C7: at most one connection handle is open at any time: every connector but
\* the one created last has been closed (or never had a driver).
C7_AtMostOneOpenHandle ==
    /\ Cardinality({i \in 1..Len(conns) : conns[i] = "open"}) <= 1
    /\ \A i \in 1..Len(conns) : conns[i] = "open" => i = Len(conns)

\* C7 witness: a second connector is open after the first one was closed
C7_Witness ==
    /\ Len(conns) >= 2
    /\ conns[1] = "closed"
    /\ conns[Len(conns)] = "open"

\* C18: a connectivity failure is surfaced once at session start and not
\* retried: a session creates at most one connector and shows at most one
\* failure message, however many script runs follow the failed attempt.
C18_FailureSurfacedOnce ==
    Len(conns) <= 1 /\ messages <= 1

\* C18 as amended: a connectivity failure is surfaced once in the script run in
\* which it happens, and while the session is not connected every script run
\* creates a new connector, attempts the connection again and shows the failure
\* message again when the attempt fails.
C18_RetriedOnEveryRunUntilConnected ==
    /\ Len(conns) <= runs
    /\ messages <= runs
    /\ (~connected /\ pc # "connect") => (Len(conns) = runs /\ messages = runs)

\* C18 witness: the second run of a session whose first attempt failed made a
\* second attempt and showed the message a second time
C18_Witness ==
    /\ ~connected
    /\ pc = "sidebar"
    /\ runs = 2
    /\ Len(conns) = 2
    /\ messages = 2

\* C19: in every script run of a connected session, a slider range that
\* differs from the last applied range causes exactly one filtered fetch, whose
\* result replaces lottery_data, and becomes the last applied range; an
\* unchanged range causes no filtered fetch and leaves lottery_data as it is.
\* No other step of a run makes a filtered fetch.
C19_FilterChangeFetchesOnce ==
    [][IF pc = "sidebar" /\ connected
       THEN IF selected' # PrevRange
            THEN /\ filter_fetches' = filter_fetches + 1
                 /\ fetched'.op = "get_filtered_games"
                 /\ lottery_src'.src = "filtered"
                 /\ lottery_src'.range = selected'
                 /\ prev_range' = selected'
            ELSE /\ filter_fetches' = filter_fetches
                 /\ lottery_src' = lottery_src
                 /\ prev_range' = selected'
       ELSE filter_fetches' = filter_fetches]_vars

\* C19 witness: a changed range was fetched and applied, after a run that
\* left the default range alone
C19_Witness ==
    /\ pc = "render"
    /\ connected
    /\ filter_fetches = 1
    /\ selected # <<1, 100>>
    /\ prev_range = selected
    /\ lottery_src = [src |-> "filtered", range |-> selected, rows |-> "rows"]

\* C25: a session marked connected has completed the initial load:
\* games_data, prizes_data and lottery_data were all assigned.  (Inside the
\* run that connects, the load follows the flag at once: pc = "load".)
C25_ConnectedImpliesLoaded ==
    (connected /\ pc # "load") =>
        {"games_data", "prizes_data", "lottery_data"} \subseteq loaded

\* C30: the step of a connected session that applies a changed filter leaves
\* games_data, prizes_data, the connected flag, the stored connector reference
\* and the connector itself as they were; of the session's data it assigns
\* only lottery_data and the last applied range.
C30_FilterChangeFrame ==
    [][(pc = "sidebar" /\ connected /\ selected' # PrevRange)
       => /\ connected' = connected
          /\ stored' = stored
          /\ conns' = conns
          /\ loaded' \cap {"games_data", "prizes_data"}
                = loaded \cap {"games_data", "prizes_data"}
          /\ loaded' \ loaded \subseteq {"lottery_data"}
          /\ messages' = messages
          /\ lottery_src'.src = "filtered"]_vars

\* C30 witness: a second filter change was applied through the connector
\* stored at connection time, with games_data and prizes_data still loaded
C30_Witness ==
    /\ pc = "render"
    /\ connected
    /\ filter_fetches = 2
    /\ lottery_src.src = "filtered"
    /\ prev_range = selected
    /\ {"games_data", "prizes_data"} \subseteq loaded
    /\ fetched = [op |-> "get_filtered_games", via |-> stored, driver |-> conns[stored]]
    /\ stored = Len(conns)

(***************************************************************************)
(* Claims about the data layer as a whole (DataSpec)                       *)
(***************************************************************************)
\* C13: when the connector returns no records, get_all_games, get_all_prizes,
\* get_combined_data, get_filtered_data and get_games_to_avoid return the empty
\* table and raise nothing; _calculate_additional_fields returns a table without
\* rows exactly as it received it.
C13_EmptyFetchGivesEmptyTable ==
    /\ (stage \in {"games", "prizes", "combined", "filtered", "avoid"}
           /\ records = <<>>)
       => result = EmptyTable
    /\ (Calculated /\ Len(input.rows) = 0) => result = input

\* C13 witness: a healthy driver, a database with games, and a filter that
\* matched none of them
C13_Witness ==
    /\ stage = "filtered"
    /\ backend = "ok"
    /\ JoinPairs(db) # <<>>
    /\ records = <<>>
    /\ result = EmptyTable

====
